---- MODULE Spec2Model ----
(***************************************************************************)
(* A model of the Wordle solver of src/src/wordle-solver.ts: the           *)
(* WordleSolver class (corpus, startingWord, guessesAndScores), the pure   *)
(* scorer scoreGuess and the simulation driver playRound.                  *)
(*                                                                         *)
(* A JavaScript string is modelled as a sequence of one-character strings, *)
(* so that it can be indexed, split and compared letter by letter.         *)
(***************************************************************************)
EXTENDS Integers, Sequences, FiniteSets, TLC

VARIABLES
    corpus,            \* WordleSolver.corpus: string[]
    startingWord,      \* WordleSolver.startingWord: string | null
    guessesAndScores,  \* WordleSolver.guessesAndScores: [string, string][]
    lastCall,          \* the public call made last, with its arguments
    result,            \* what that call returned, or that it threw
    origin,            \* the corpus the solver was last given, and by which call
    pc,                \* playRound: position in the function
    targetWord,        \* playRound: parameter targetWord
    myGuess,           \* playRound: local myGuess
    myScore,           \* playRound: local myScore
    attempts           \* playRound: local attempts

vars == <<corpus, startingWord, guessesAndScores, lastCall, result, origin,
          pc, targetWord, myGuess, myScore, attempts>>

solverVars == <<corpus, startingWord, guessesAndScores>>
callVars == <<lastCall, result>>

\* The origin is followed where the solver is compared with a fresh one
\* (ReplaySpec below); elsewhere it stays NoOrigin.
NoOrigin == [op |-> "none", corpus |-> <<>>]
playVars == <<pc, targetWord, myGuess, myScore, attempts>>

----------------------------------------------------------------------------
(* Values *)

\* JavaScript null (a sequence, so that it compares with words).
Null == <<"null">>

\* JavaScript undefined, as an array element.
Undefined == "undefined"

\* The atIndex argument of letterFrequency when it is null.
NoIndex == -1

\* this.guessLength = 5
guessLength == 5

\* Bound on the number of accepted score calls between two resets.
MaxHistory == 2

\* Bound on the length of the corpora handed to the constructor and to reset
\* (the default corpus is handed over whole whatever its length).
MaxCorpusLen == 2

\* Bound on the length of the strings the scorer is applied to on its own.
MaxScoreLen == 4

----------------------------------------------------------------------------
(* The words of the model *)

later == <<"l", "a", "t", "e", "r">>
alter == <<"a", "l", "t", "e", "r">>
alert == <<"a", "l", "e", "r", "t">>
eater == <<"e", "a", "t", "e", "r">>
irate == <<"i", "r", "a", "t", "e">>
geese == <<"g", "e", "e", "s", "e">>
lousy == <<"l", "o", "u", "s", "y">>

\* words.json "solutions": the default corpus (a stand-in: the data file is
\* an external input of the program).
solutions == <<eater, later, alter, lousy, alert, geese, irate>>

----------------------------------------------------------------------------
(* Array and string helpers *)

Range(s) == {s[i] : i \in DOMAIN s}

\* String.prototype.includes / Array.prototype.includes
includes(s, x) == \E i \in DOMAIN s : s[i] = x

\* new Set(word).size
uniqs(word) == Cardinality(Range(word))

RECURSIVE sumOver(_, _, _)
\* word.split("").reduce((acc, letter) => acc + letterFreq[letter], 0), from letter i on
sumOver(letterFreq, word, i) ==
    IF i > Len(word) THEN 0
    ELSE letterFreq[word[i]] + sumOver(letterFreq, word, i + 1)

\* utils zip: xs.map((x, i) => [x, ys[i]])
zip(xs, ys) ==
    [i \in 1..Len(xs) |-> <<xs[i], IF i \in DOMAIN ys THEN ys[i] ELSE Undefined>>]

\* One letter of String.prototype.toLowerCase, on the letters the model uses.
lowerLetter(l) ==
    CASE l = "X" -> "x"
      [] l = "E" -> "e"
      [] l = "I" -> "i"
      [] OTHER -> l

\* String.prototype.toLowerCase
toLowerCase(s) == [i \in 1..Len(s) |-> lowerLetter(s[i])]

----------------------------------------------------------------------------
(* scoreGuess *)

\* A faulty variant: 'i' and 'e' are exchanged.
scoreGuess_Swapped(guess, target) ==
    [i \in 1..Len(guess) |->
        IF i \in DOMAIN target /\ guess[i] = target[i] THEN "x"
        ELSE IF includes(target, guess[i]) THEN "e"
        ELSE "i"]

scoreGuess(guess, target) ==
    LET pairs == zip(guess, target)
    IN  [i \in 1..Len(pairs) |->
            IF pairs[i][1] = pairs[i][2] THEN "x"
            ELSE IF includes(target, pairs[i][1]) THEN "i"
            ELSE "e"]

----------------------------------------------------------------------------
(* letterFrequency and the ranking *)

\* The body of the inner forEach for one letter, on that letter's entry v of
\* the table (0 stands for the missing entry, which is falsy like 0):
\* if (!letterFreq[letter]) letterFreq[letter] = 1; letterFreq[letter]++
countLetter(v) ==
    LET set == IF v = 0 THEN 1 ELSE v
    IN  set + 1

RECURSIVE countLetters(_)
\* A letter's entry after the body ran n times for it.
countLetters(n) == IF n = 0 THEN 0 ELSE countLetter(countLetters(n - 1))

\* The places <<word, index>> (index 0-based, as in the code) at which the two
\* nested forEach of letterFrequency get past the atIndex test.
visited(c, atIndex) ==
    {p \in (1..Len(c)) \X (0..(guessLength - 1)) :
        /\ p[2] + 1 \in DOMAIN c[p[1]]
        /\ ~(atIndex # NoIndex /\ atIndex # p[2])}

\* letterFrequency(atIndex): the table returned, a function from the letters
\* met to their entry. The body touches only the entry of the letter it is
\* run for, so each entry is the body run once per visit of that letter.
letterFrequency(c, atIndex) ==
    LET places == visited(c, atIndex)
        letters == {c[p[1]][p[2] + 1] : p \in places}
    IN  [l \in letters |->
            countLetters(Cardinality({p \in places : c[p[1]][p[2] + 1] = l}))]

\* A faulty variant: of two words with as many distinct letters, the one with
\* the lower sum comes first.
byFrequency_LowerSumFirst(letterFreq, a, b) ==
    LET differenceOfUniqueness == uniqs(b) - uniqs(a)
    IN  IF differenceOfUniqueness # 0 THEN differenceOfUniqueness
        ELSE sumOver(letterFreq, a, 1) - sumOver(letterFreq, b, 1)

\* The comparator byFrequency of sortByCommonness.
byFrequency(letterFreq, a, b) ==
    LET differenceOfUniqueness == uniqs(b) - uniqs(a)
    IN  IF differenceOfUniqueness # 0 THEN differenceOfUniqueness
        ELSE sumOver(letterFreq, b, 1) - sumOver(letterFreq, a, 1)

\* A faulty variant: a sort that is not stable (of the elements that compare
\* equal, the later one comes first).
sortedBy_Unstable(letterFreq, c) ==
    LET Precedes(j, k) ==
            \/ byFrequency(letterFreq, c[j], c[k]) < 0
            \/ (byFrequency(letterFreq, c[j], c[k]) = 0 /\ j > k)
        place(k) == Cardinality({j \in DOMAIN c : Precedes(j, k)}) + 1
    IN  [p \in 1..Len(c) |-> c[CHOOSE k \in DOMAIN c : place(k) = p]]

\* Array.prototype.sort(byFrequency). The sort is stable: the element at k
\* comes after the elements that compare less than it, and after the elements
\* before k that compare equal to it.
sortedBy(letterFreq, c) ==
    LET Precedes(j, k) ==
            \/ byFrequency(letterFreq, c[j], c[k]) < 0
            \/ (byFrequency(letterFreq, c[j], c[k]) = 0 /\ j < k)
        place(k) == Cardinality({j \in DOMAIN c : Precedes(j, k)}) + 1
    IN  [p \in 1..Len(c) |-> c[CHOOSE k \in DOMAIN c : place(k) = p]]

\* sortByCommonness (and sort, which only calls it): the corpus re-ordered.
\* const letterFreq = this.letterFrequency() is computed once, on the corpus
\* as it is when the method is entered.
sortByCommonness(c) ==
    CHOOSE sorted \in {sortedBy(letterFreq, entered) :
                          letterFreq \in {letterFrequency(c, NoIndex)},
                          entered \in {c}} : TRUE

----------------------------------------------------------------------------
(* The filters of the corpus *)

\* Array.prototype.filter is SelectSeq.

\* excludeLetters(lettersToExclude): lettersToExclude is a sequence of letters.
excludeLetters(c, lettersToExclude) ==
    LET excludedLetters == Range(lettersToExclude)
        Test(word) == \A i \in DOMAIN word : word[i] \notin excludedLetters
    IN  SelectSeq(c, Test)

\* excludeWithLetter(wrongLetter, index); index is 0-based as in the code.
excludeWithLetter(c, wrongLetter, index) ==
    LET Test(word) == word[index + 1] # wrongLetter
    IN  SelectSeq(c, Test)

\* A faulty variant: the filtered corpus is not assigned back.
keepWithCorrectLetter_NotAssigned(c, correctLetter, index) == c

\* keepWithCorrectLetter(correctLetter, index)
keepWithCorrectLetter(c, correctLetter, index) ==
    LET Test(word) == word[index + 1] = correctLetter
    IN  SelectSeq(c, Test)

\* A faulty variant: the letter is not required to be in the word.
keepWithMisplacedLetter_NoIncludes(c, misplacedLetter, index) ==
    LET Test(word) == word[index + 1] # misplacedLetter
    IN  SelectSeq(c, Test)

\* keepWithMisplacedLetter(misplacedLetter, index)
keepWithMisplacedLetter(c, misplacedLetter, index) ==
    LET Test(word) == word[index + 1] # misplacedLetter /\ includes(word, misplacedLetter)
    IN  SelectSeq(c, Test)

----------------------------------------------------------------------------
(* score *)

\* A faulty variant: no letter is taken for a duplicate letter.
duplicateLettersOf_None(guess) == {}

\* The letters of the guess that occur again later in the guess.
duplicateLettersOf(guess) ==
    {guess[i] : i \in {k \in 1..Len(guess) : \E j \in (k + 1)..Len(guess) : guess[j] = guess[k]}}

\* A faulty variant: the letters scored 'i' are taken for misses.
missesOf_Included(guessAndScore, duplicateLetters) ==
    LET Test(p) == p[2] = "i" /\ p[1] \notin duplicateLetters
        kept == SelectSeq(guessAndScore, Test)
    IN  [i \in 1..Len(kept) |-> kept[i][1]]

\* The letters scored 'e' that are no duplicate letters, in guess order.
missesOf(guessAndScore, duplicateLetters) ==
    LET Test(p) == p[2] = "e" /\ p[1] \notin duplicateLetters
        kept == SelectSeq(guessAndScore, Test)
    IN  [i \in 1..Len(kept) |-> kept[i][1]]

\* One turn of guessAndScore.forEach: the switch on scoreLetter.
applyLetter(c, guessLetter, scoreLetter, index) ==
    CASE scoreLetter = "x" -> keepWithCorrectLetter(c, guessLetter, index)
      [] scoreLetter = "i" -> keepWithMisplacedLetter(c, guessLetter, index)
      [] scoreLetter = "e" -> excludeWithLetter(c, guessLetter, index)
      [] OTHER -> c

RECURSIVE applyLetters(_, _, _)
\* guessAndScore.forEach(...), from (1-based) position i on.
applyLetters(c, guessAndScore, i) ==
    IF i > Len(guessAndScore) THEN c
    ELSE applyLetters(applyLetter(c, guessAndScore[i][1], guessAndScore[i][2], i - 1),
                      guessAndScore, i + 1)

\* The letters of the score argument that fail the validation.
invalidScoreLettersOf(scoreArg) ==
    LET Test(l) == l # "x" /\ l # "e" /\ l # "i"
    IN  SelectSeq(scoreArg, Test)

\* The part of score after the validation: the record is pushed, the corpus
\* filtered and sorted.
scoreAccepted(c, h, guess, loweredScore) ==
    LET pushed == Append(h, <<guess, loweredScore>>)
        guessAndScore == zip(guess, loweredScore)
        duplicateLetters == duplicateLettersOf(guess)
        misses == missesOf(guessAndScore, duplicateLetters)
        excluded == excludeLetters(c, misses)
        filtered == applyLetters(excluded, guessAndScore, 1)
    IN  [threw |-> FALSE,
         corpus |-> sortByCommonness(filtered),
         guessesAndScores |-> pushed]

\* A faulty variant: the record is pushed before the arguments are validated.
score_PushedFirst(c, h, guess, scoreArg) ==
    LET pushed == Append(h, <<guess, toLowerCase(scoreArg)>>)
    IN  IF \/ Len(guess) # guessLength
           \/ Len(scoreArg) # guessLength
           \/ Len(invalidScoreLettersOf(scoreArg)) # 0
        THEN [threw |-> TRUE, corpus |-> c, guessesAndScores |-> pushed]
        ELSE scoreAccepted(c, h, guess, toLowerCase(scoreArg))

\* score(guess, score) on a solver holding corpus c and history h: whether it
\* threw, and the corpus and history it leaves.
score(c, h, guess, scoreArg) ==
    IF Len(guess) # guessLength THEN [threw |-> TRUE, corpus |-> c, guessesAndScores |-> h]
    ELSE IF Len(scoreArg) # guessLength THEN [threw |-> TRUE, corpus |-> c, guessesAndScores |-> h]
    ELSE
    LET loweredScore == toLowerCase(scoreArg)
        invalidScoreLetters == invalidScoreLettersOf(scoreArg)
    IN  IF Len(invalidScoreLetters) # 0
        THEN [threw |-> TRUE, corpus |-> c, guessesAndScores |-> h]
        ELSE scoreAccepted(c, h, guess, loweredScore)

----------------------------------------------------------------------------
(* reset, the constructor, getSolutions, getBestGuess *)

\* A faulty variant: the history is not cleared.
reset_KeepsHistory(h, newCorpus) == [corpus |-> newCorpus, guessesAndScores |-> h]

\* reset(corpus) on a solver holding history h: corpus.slice() and an empty
\* history.
reset(h, newCorpus) == [corpus |-> newCorpus, guessesAndScores |-> <<>>]

\* getSolutions(): sorts, and returns the corpus.
getSolutions(c) == sortByCommonness(c)

\* x[0] ?? null on an array
firstOrNull(c) == IF Len(c) > 0 THEN c[1] ELSE Null

\* A faulty variant: this.sort() is left out of the constructor.
construct_NotSorted(corpusArg, startingWordArg) ==
    LET r == reset(<<>>, corpusArg)
    IN  IF startingWordArg # Null
        THEN [corpus |-> r.corpus,
              guessesAndScores |-> r.guessesAndScores,
              startingWord |-> startingWordArg]
        ELSE [corpus |-> getSolutions(r.corpus),
              guessesAndScores |-> r.guessesAndScores,
              startingWord |-> firstOrNull(getSolutions(r.corpus))]

\* new WordleSolver(corpus, startingWord)
construct(corpusArg, startingWordArg) ==
    LET r == reset(<<>>, corpusArg)
        sorted == sortByCommonness(r.corpus)
    IN  IF startingWordArg # Null
        THEN [corpus |-> sorted,
              guessesAndScores |-> r.guessesAndScores,
              startingWord |-> startingWordArg]
        ELSE [corpus |-> getSolutions(sorted),
              guessesAndScores |-> r.guessesAndScores,
              startingWord |-> firstOrNull(getSolutions(sorted))]

\* A faulty variant: the starting word is never looked at.
getBestGuess_NoStartingWord(c, h, sw) ==
    LET sols == getSolutions(c)
    IN  [value |-> firstOrNull(sols), corpus |-> sols]

\* getBestGuess() on a solver (c, h, sw): the value returned and the corpus left.
getBestGuess(c, h, sw) ==
    IF Len(h) = 0 THEN [value |-> sw, corpus |-> c]
    ELSE LET sols == getSolutions(c)
         IN  [value |-> firstOrNull(sols), corpus |-> sols]

----------------------------------------------------------------------------
(* The inputs of the calls *)

\* The corpora handed to the constructor and to reset: the default corpus,
\* and the slices of it of at most MaxCorpusLen words.
CorpusInputs ==
    LET slices == {SubSeq(solutions, i, j) : i \in 1..(Len(solutions) + 1),
                                             j \in 0..Len(solutions)}
    IN  {solutions} \cup {c \in slices : Len(c) <= MaxCorpusLen}

\* The startingWord argument of the constructor.
StartingWordInputs == {Null, irate}

\* The guess argument of score: a word, a word with a repeated letter, and a
\* guess of the wrong length.
GuessInputs == {lousy, eater, <<"l", "a", "t", "e">>}

\* The score argument of score: what the scorer gives for some target, the
\* real game's answer to eater when the word is later, and malformed ones.
ScoreInputs(guess) ==
    {scoreGuess(guess, t) : t \in {alert, lousy, geese}} \cup
    {<<"e", "x", "x", "x", "x">>,
     <<"E", "E", "X", "I", "I">>,
     <<"e", "e", "x", "i", "z">>,
     <<"e", "e", "x", "i">>}

----------------------------------------------------------------------------
(* The solver driven through its public methods *)

Init ==
    /\ \E corpusArg \in CorpusInputs, startingWordArg \in StartingWordInputs :
          LET s == construct(corpusArg, startingWordArg)
          IN  /\ corpus = s.corpus
              /\ guessesAndScores = s.guessesAndScores
              /\ startingWord = s.startingWord
              /\ lastCall = [op |-> "construct", corpus |-> corpusArg,
                             startingWord |-> startingWordArg]
    /\ result = [threw |-> FALSE]
    /\ origin = NoOrigin
    /\ pc = "idle"
    /\ targetWord = Null
    /\ myGuess = Null
    /\ myScore = Null
    /\ attempts = 0

Score ==
    \E guess \in GuessInputs :
      \E scoreArg \in ScoreInputs(guess) :
        LET r == score(corpus, guessesAndScores, guess, scoreArg)
        IN  /\ r.threw \/ Len(guessesAndScores) < MaxHistory
            /\ corpus' = r.corpus
            /\ guessesAndScores' = r.guessesAndScores
            /\ lastCall' = [op |-> "score", guess |-> guess, score |-> scoreArg]
            /\ result' = [threw |-> r.threw]
            /\ UNCHANGED <<startingWord, origin, playVars>>

GetBestGuess ==
    LET r == getBestGuess(corpus, guessesAndScores, startingWord)
    IN  /\ corpus' = r.corpus
        /\ lastCall' = [op |-> "getBestGuess", after |-> lastCall.op]
        /\ result' = [threw |-> FALSE, value |-> r.value]
        /\ UNCHANGED <<startingWord, guessesAndScores, origin, playVars>>

Reset ==
    \E corpusArg \in CorpusInputs :
        LET r == reset(guessesAndScores, corpusArg)
        IN  /\ corpus' = r.corpus
            /\ guessesAndScores' = r.guessesAndScores
            /\ lastCall' = [op |-> "reset", corpus |-> corpusArg]
            /\ result' = [threw |-> FALSE]
            /\ UNCHANGED <<startingWord, origin, playVars>>

GetSolutions ==
    /\ corpus' = getSolutions(corpus)
    /\ lastCall' = [op |-> "getSolutions"]
    /\ result' = [threw |-> FALSE, value |-> corpus']
    /\ UNCHANGED <<startingWord, guessesAndScores, origin, playVars>>

LetterFrequency ==
    \E atIndex \in {NoIndex} \cup (0..(guessLength - 1)) :
        /\ lastCall' = [op |-> "letterFrequency", atIndex |-> atIndex]
        /\ result' = [threw |-> FALSE, value |-> letterFrequency(corpus, atIndex)]
        /\ UNCHANGED <<solverVars, origin, playVars>>

Next ==
    \/ Score
    \/ GetBestGuess
    \/ Reset
    \/ GetSolutions
    \/ LetterFrequency

Spec == Init /\ [][Next]_vars

----------------------------------------------------------------------------
(* playRound(targetWord, startingWord): one round against the default corpus *)

\* Array(solver.guessLength).fill("x").join("")
solvedScore == [i \in 1..guessLength |-> "x"]

\* The startingWord argument of playRound: none, a word of the corpus, or a
\* word that is not in it.
PlayStartingWordInputs == {Null} \cup Range(solutions) \cup {<<"s", "t", "o", "r", "y">>}

InitPlay ==
    /\ targetWord \in Range(solutions)
    /\ \E startingWordArg \in PlayStartingWordInputs :
          LET s == construct(solutions, startingWordArg)
          IN  /\ corpus = s.corpus
              /\ guessesAndScores = s.guessesAndScores
              /\ startingWord = s.startingWord
              /\ lastCall = [op |-> "playRound", startingWord |-> startingWordArg]
    /\ result = [threw |-> FALSE]
    /\ origin = NoOrigin
    /\ pc = "first"
    /\ myGuess = Null
    /\ myScore = Null
    /\ attempts = 0

\* let myGuess = solver.getBestGuess(); let myScore = scoreGuess(myGuess, targetWord);
\* (each value the function computes is bound once, as its local is)
PlayFirst ==
    /\ pc = "first"
    /\ \E g \in {getBestGuess(corpus, guessesAndScores, startingWord)} :
          /\ corpus' = g.corpus
          /\ myGuess' = g.value
          /\ myScore' = scoreGuess(g.value, targetWord)
    /\ pc' = "loop"
    /\ UNCHANGED <<startingWord, guessesAndScores, callVars, origin, targetWord, attempts>>

\* One turn of while (myScore !== solvedScore) { ... }
PlayTurn ==
    /\ pc = "loop"
    /\ myScore # solvedScore
    /\ \E g \in {getBestGuess(corpus, guessesAndScores, startingWord)} :
          /\ myGuess' = g.value
          /\ IF g.value = Null
             THEN \* throw new Error(`No more guesses after ...`)
                  /\ pc' = "threw"
                  /\ corpus' = g.corpus
                  /\ UNCHANGED <<guessesAndScores, myScore, attempts>>
             ELSE \E newScore \in {scoreGuess(g.value, targetWord)} :
                  \E r \in {score(g.corpus, guessesAndScores, g.value, newScore)} :
                      /\ myScore' = newScore
                      /\ corpus' = r.corpus
                      /\ guessesAndScores' = r.guessesAndScores
                      /\ IF r.threw
                         THEN pc' = "threw" /\ UNCHANGED attempts
                         ELSE pc' = "loop" /\ attempts' = attempts + 1
    /\ UNCHANGED <<startingWord, callVars, origin, targetWord>>

\* The loop ends: return { attempts, ... }
PlayReturn ==
    /\ pc = "loop"
    /\ myScore = solvedScore
    /\ pc' = "done"
    /\ UNCHANGED <<solverVars, callVars, origin, targetWord, myGuess, myScore, attempts>>

NextPlay ==
    \/ PlayFirst
    \/ PlayTurn
    \/ PlayReturn

\* The function runs to its end: its steps are taken one after the other.
PlaySpec == InitPlay /\ [][NextPlay]_vars /\ WF_vars(NextPlay)

----------------------------------------------------------------------------
(* scoreGuess on its own *)

ScorerLetters == {"a", "b", "c"}

\* The strings of at most MaxScoreLen letters.
ScorerWords == UNION {[1..n -> ScorerLetters] : n \in 0..MaxScoreLen}

InitScorer ==
    /\ myGuess \in ScorerWords
    /\ targetWord \in ScorerWords
    /\ Len(myGuess) = Len(targetWord)
    /\ myScore = Null
    /\ pc = "scoreGuess"
    /\ corpus = <<>>
    /\ guessesAndScores = <<>>
    /\ startingWord = Null
    /\ lastCall = [op |-> "scoreGuess"]
    /\ result = [threw |-> FALSE]
    /\ origin = NoOrigin
    /\ attempts = 0

ApplyScoreGuess ==
    /\ pc = "scoreGuess"
    /\ myScore' = scoreGuess(myGuess, targetWord)
    /\ pc' = "scored"
    /\ UNCHANGED <<solverVars, callVars, origin, targetWord, myGuess, attempts>>

NextScorer == ApplyScoreGuess

ScorerSpec == InitScorer /\ [][NextScorer]_vars

----------------------------------------------------------------------------
(* The solver beside a fresh one: the origin remembers the corpus the solver
   was given, so that a fresh solver can be built on it and the recorded
   history replayed *)

ching == <<"c", "h", "i", "n", "g">>

\* The corpora handed to the constructor and to reset: those of CorpusInputs,
\* and a list that is not in ranking order (with geese in it later ranks
\* before lousy; without it the two rank equal).
ReplayCorpusInputs == CorpusInputs \cup {<<lousy, later, geese>>}

\* The guess argument of score: a word of the corpus, and a word that has no
\* letter of lousy or later.
ReplayGuessInputs == {lousy, ching}

\* The score argument of score: what the scorer gives for some target, and a
\* malformed one.
ReplayScoreInputs(guess) ==
    {scoreGuess(guess, t) : t \in {lousy, alert}} \cup {<<"e", "e", "x", "i", "z">>}

InitReplay ==
    /\ \E corpusArg \in ReplayCorpusInputs, startingWordArg \in StartingWordInputs :
          LET s == construct(corpusArg, startingWordArg)
          IN  /\ corpus = s.corpus
              /\ guessesAndScores = s.guessesAndScores
              /\ startingWord = s.startingWord
              /\ origin = [op |-> "construct", corpus |-> corpusArg]
    /\ lastCall = [op |-> "construct"]
    /\ result = [threw |-> FALSE]
    /\ pc = "idle"
    /\ targetWord = Null
    /\ myGuess = Null
    /\ myScore = Null
    /\ attempts = 0

ReplayScore ==
    \E guess \in ReplayGuessInputs :
      \E scoreArg \in ReplayScoreInputs(guess) :
        \E r \in {score(corpus, guessesAndScores, guess, scoreArg)} :
            /\ r.threw \/ Len(guessesAndScores) < MaxHistory
            /\ corpus' = r.corpus
            /\ guessesAndScores' = r.guessesAndScores
            /\ lastCall' = [op |-> "score"]
            /\ result' = [threw |-> r.threw]
            /\ UNCHANGED <<startingWord, origin, playVars>>

ReplayGetBestGuess ==
    \E r \in {getBestGuess(corpus, guessesAndScores, startingWord)} :
        /\ corpus' = r.corpus
        /\ lastCall' = [op |-> "getBestGuess"]
        /\ result' = [threw |-> FALSE]
        /\ UNCHANGED <<startingWord, guessesAndScores, origin, playVars>>

ReplayGetSolutions ==
    /\ corpus' = getSolutions(corpus)
    /\ lastCall' = [op |-> "getSolutions"]
    /\ result' = [threw |-> FALSE]
    /\ UNCHANGED <<startingWord, guessesAndScores, origin, playVars>>

ReplayReset ==
    \E corpusArg \in ReplayCorpusInputs :
        \E r \in {reset(guessesAndScores, corpusArg)} :
            /\ corpus' = r.corpus
            /\ guessesAndScores' = r.guessesAndScores
            /\ origin' = [op |-> "reset", corpus |-> corpusArg]
            /\ lastCall' = [op |-> "reset"]
            /\ result' = [threw |-> FALSE]
            /\ UNCHANGED <<startingWord, playVars>>

NextReplay ==
    \/ ReplayScore
    \/ ReplayGetBestGuess
    \/ ReplayGetSolutions
    \/ ReplayReset

ReplaySpec == InitReplay /\ [][NextReplay]_vars

----------------------------------------------------------------------------
(* Properties *)

\* The codes of a score.
Codes == {"x", "e", "i"}

\* The letters of a guess that occur in it more than once.
Repeated(g) == {g[i] : i \in {k \in DOMAIN g : \E j \in DOMAIN g : j # k /\ g[j] = g[k]}}

\* C1: playRound(t, startingWord), for t in the default corpus and startingWord
\* null or a 5-letter word, terminates with the last feedback all 'x'; until
\* then getBestGuess always returns a word and no step throws, and t is in
\* the solver's corpus all along.
C1_PlayRoundTerminates ==
    /\ <>(pc = "done" /\ myScore = solvedScore)
    /\ [](pc # "threw")
    /\ [](pc \in {"loop", "done"} => myGuess # Null)
    /\ [](includes(corpus, targetWord))

\* A round that took several turns of the loop has ended.
C1_Witness ==
    /\ pc = "done"
    /\ attempts >= 3
    /\ myGuess = targetWord
    /\ Len(guessesAndScores) = attempts

\* C2 as stated: every word of the corpus, taken as the target, gives every
\* recorded guess its recorded score.
C2_CorpusScoresAsRecorded ==
    \A k \in DOMAIN corpus : \A n \in DOMAIN guessesAndScores :
        scoreGuess(guessesAndScores[n][1], corpus[k]) = guessesAndScores[n][2]

\* C2 amended: every word of the corpus, taken as the target, gives every
\* recorded guess its recorded score at every position, except at the positions
\* scored 'e' whose letter is repeated in the guess: there the word only
\* differs from the guess at that position.
C2_CorpusAgreesWithHistory ==
    \A k \in DOMAIN corpus : \A n \in DOMAIN guessesAndScores :
        LET w == corpus[k]
            g == guessesAndScores[n][1]
            f == guessesAndScores[n][2]
        IN  /\ Len(f) = Len(g)
            /\ \A i \in DOMAIN g :
                  IF f[i] = "e" /\ g[i] \in Repeated(g)
                  THEN w[i] # g[i]
                  ELSE scoreGuess(g, w)[i] = f[i]

\* Two records are in the history, one of a guess with a repeated letter scored
\* 'e', and a word that has this letter is still in the corpus.
C2_Witness ==
    /\ Len(guessesAndScores) = 2
    /\ \E k \in DOMAIN corpus : \E n \in DOMAIN guessesAndScores :
          LET g == guessesAndScores[n][1]
              f == guessesAndScores[n][2]
          IN  \E i \in DOMAIN g :
                 f[i] = "e" /\ g[i] \in Repeated(g) /\ includes(corpus[k], g[i])

\* The arguments score rejects, as the claim lists them.
Rejected(guess, scoreArg) ==
    \/ Len(guess) # guessLength
    \/ Len(scoreArg) # guessLength
    \/ \E i \in DOMAIN scoreArg : scoreArg[i] \notin Codes

\* C3: a score call whose guess or score has the wrong length, or whose score
\* has a character outside {x, e, i}, throws and leaves the corpus and the
\* history as they were.
C3_RejectedScoreChangesNothing ==
    [][(lastCall'.op = "score" /\ Rejected(lastCall'.guess, lastCall'.score))
          => /\ result'.threw
             /\ corpus' = corpus
             /\ guessesAndScores' = guessesAndScores]_vars

\* A score with a bad character was rejected by a solver that holds a corpus
\* and a history.
C3_Witness ==
    /\ lastCall.op = "score"
    /\ result.threw
    /\ Len(lastCall.guess) = guessLength
    /\ Len(lastCall.score) = guessLength
    /\ \E i \in DOMAIN lastCall.score : lastCall.score[i] = "z"
    /\ corpus # <<>>
    /\ guessesAndScores # <<>>

\* C4: a score of guessLength characters that are x, e or i in upper or lower
\* case is accepted, recorded in lowercase, and filters the corpus as its
\* lowercase form does.
C4_ScoreIsCaseInsensitive ==
    [][(/\ lastCall'.op = "score"
        /\ Len(lastCall'.guess) = guessLength
        /\ Len(lastCall'.score) = guessLength
        /\ \A i \in DOMAIN lastCall'.score : lowerLetter(lastCall'.score[i]) \in Codes)
          => /\ ~result'.threw
             /\ guessesAndScores' =
                   Append(guessesAndScores, <<lastCall'.guess, toLowerCase(lastCall'.score)>>)
             /\ corpus' = score(corpus, guessesAndScores, lastCall'.guess,
                                toLowerCase(lastCall'.score)).corpus]_vars

\* How many times a word is in a corpus.
Occurrences(c, w) == Cardinality({k \in DOMAIN c : c[k] = w})

\* A word fits a guess and its score when it passes the rules the score
\* stands for: no letter scored 'e' that occurs once in the guess; the letter
\* of the guess where it is scored 'x'; not the letter of the guess where it
\* is scored 'i' or 'e'; the letter somewhere where it is scored 'i'.
Fits(w, g, f) ==
    /\ \A i \in DOMAIN g : (f[i] = "e" /\ g[i] \notin Repeated(g)) => ~includes(w, g[i])
    /\ \A i \in DOMAIN g :
          /\ f[i] = "x" => w[i] = g[i]
          /\ f[i] = "i" => (w[i] # g[i] /\ includes(w, g[i]))
          /\ f[i] = "e" => w[i] # g[i]

TimesIn(c, letter, atIndex) ==
    Cardinality({p \in (DOMAIN c) \X (0..(guessLength - 1)) :
                    /\ p[2] + 1 \in DOMAIN c[p[1]]
                    /\ c[p[1]][p[2] + 1] = letter
                    /\ (atIndex = NoIndex \/ atIndex = p[2])})

\* C6: letterFrequency() gives each letter of the corpus the number of times it
\* is in the words of the corpus, and letterFrequency(p) the number of words
\* that have it at index p.
C6_LetterFrequencyCounts ==
    lastCall.op = "letterFrequency" =>
        /\ DOMAIN result.value =
              {l \in UNION {Range(corpus[k]) : k \in DOMAIN corpus} :
                  TimesIn(corpus, l, lastCall.atIndex) > 0}
        /\ \A l \in DOMAIN result.value :
              result.value[l] = TimesIn(corpus, l, lastCall.atIndex)

\* C7: with an empty history getBestGuess returns the starting word (null for
\* a solver built on an empty corpus without a starting word); with a history
\* it leaves the corpus ranked and returns its first word, or null when the
\* corpus is empty.
C7_BestGuess ==
    /\ lastCall.op = "getBestGuess" =>
          IF guessesAndScores = <<>> THEN result.value = startingWord
          ELSE IF corpus = <<>> THEN result.value = Null
          ELSE /\ result.value = corpus[1]
               /\ \A i, j \in DOMAIN corpus :
                     i < j => byFrequency(letterFrequency(corpus, NoIndex),
                                          corpus[i], corpus[j]) <= 0
    /\ (lastCall.op = "construct" /\ lastCall.corpus = <<>> /\ lastCall.startingWord = Null)
          => startingWord = Null

\* getBestGuess returned the first of several ranked words, which is not the
\* starting word.
C7_Witness ==
    /\ lastCall.op = "getBestGuess"
    /\ guessesAndScores # <<>>
    /\ Len(corpus) >= 2
    /\ result.value = corpus[1]
    /\ result.value # startingWord

\* C8: reset(corpus) makes the given list the corpus, empties the history and
\* leaves the starting word, which no call changes; getBestGuess right after
\* it returns the starting word.
C8_ResetKeepsStartingWord ==
    [][/\ startingWord' = startingWord
       /\ lastCall'.op = "reset" =>
             /\ corpus' = lastCall'.corpus
             /\ guessesAndScores' = <<>>
       /\ (lastCall'.op = "getBestGuess" /\ lastCall.op = "reset") =>
             result'.value = startingWord]_vars

\* getBestGuess right after a reset returned the starting word, which is not
\* what the ranking of the new corpus puts first.
C8_Witness ==
    /\ lastCall.op = "getBestGuess"
    /\ lastCall.after = "reset"
    /\ corpus # <<>>
    /\ result.value = startingWord
    /\ result.value # sortByCommonness(corpus)[1]

\* C9: scoreGuess(guess, target), for strings of equal length, is a string of
\* that length with 'x' where guess and target have the same letter, else 'i'
\* where the letter of the guess is somewhere in the target, else 'e'; so
\* scoreGuess(w, w) is all 'x'.
C9_ScoreGuess ==
    pc = "scored" =>
        /\ DOMAIN myScore = DOMAIN myGuess
        /\ \A i \in DOMAIN myGuess :
              /\ myScore[i] = "x" <=> myGuess[i] = targetWord[i]
              /\ myScore[i] = "i" <=>
                    (myGuess[i] # targetWord[i]
                        /\ \E j \in DOMAIN targetWord : targetWord[j] = myGuess[i])
              /\ myScore[i] = "e" <=>
                    (\A j \in DOMAIN targetWord : targetWord[j] # myGuess[i])
        /\ myGuess = targetWord => \A i \in DOMAIN myScore : myScore[i] = "x"

\* A guess with a repeated letter was scored with the three codes.
C9_Witness ==
    /\ pc = "scored"
    /\ Range(myScore) = Codes
    /\ Repeated(myGuess) # {}

\* C10: getBestGuess called twice in a row returns the same word.
C10_BestGuessTwice ==
    [][(lastCall.op = "getBestGuess" /\ lastCall'.op = "getBestGuess")
          => result'.value = result.value]_vars

\* getBestGuess was called twice in a row with a history, and the two words
\* the ranking puts first compare equal.
C10_Witness ==
    /\ lastCall.op = "getBestGuess"
    /\ lastCall.after = "getBestGuess"
    /\ guessesAndScores # <<>>
    /\ Len(corpus) >= 2
    /\ byFrequency(letterFrequency(corpus, NoIndex), corpus[1], corpus[2]) = 0
    /\ result.value = corpus[1]

RECURSIVE replayed(_, _, _)
\* The corpus of a solver that holds corpus c and an empty history, after the
\* first n records of the history h were given to score in order.
replayed(c, h, n) ==
    IF n = 0 THEN c
    ELSE score(replayed(c, h, n - 1), SubSeq(h, 1, n - 1), h[n][1], h[n][2]).corpus

\* The corpus of a fresh solver constructed on the origin's corpus, after the
\* recorded history was replayed on it.
replayedOnFresh ==
    replayed(construct(origin.corpus, Null).corpus,
             guessesAndScores, Len(guessesAndScores))

\* C11 as stated: after accepted score calls the corpus is the corpus of a
\* fresh solver constructed on the corpus the solver was given (by the
\* constructor or by reset), after the recorded history was replayed on it:
\* the same words in the same order.
C11_ReplayReproducesCorpus ==
    (origin.op = "construct" \/ guessesAndScores # <<>>) => corpus = replayedOnFresh

\* C11 amended: for a solver constructed on C the corpus is the replayed one,
\* word for word. For a solver that was reset to C, which reset leaves
\* unranked, the corpus after accepted score calls is ranked and has the words
\* of the replayed one, each as many times; it is either the replayed one or
\* what the replay gives when started from C as given.
C11_ReplayFromSameStart ==
    /\ origin.op = "construct" => corpus = replayedOnFresh
    /\ (origin.op = "reset" /\ guessesAndScores # <<>>) =>
          /\ Len(corpus) = Len(replayedOnFresh)
          /\ \A k \in DOMAIN corpus :
                Occurrences(corpus, corpus[k]) = Occurrences(replayedOnFresh, corpus[k])
          /\ \A i, j \in DOMAIN corpus :
                i < j => byFrequency(letterFrequency(corpus, NoIndex),
                                     corpus[i], corpus[j]) <= 0
          /\ \/ corpus = replayedOnFresh
             \/ corpus = replayed(origin.corpus, guessesAndScores, Len(guessesAndScores))

\* A solver constructed on a corpus that was not in ranking order took two
\* scores that each removed a word, and was ranked again after them; several
\* words are left.
C11_Witness ==
    /\ origin.op = "construct"
    /\ origin.corpus # construct(origin.corpus, Null).corpus
    /\ lastCall.op = "getSolutions"
    /\ Len(guessesAndScores) = 2
    /\ Len(corpus) >= 2
    /\ Len(replayed(construct(origin.corpus, Null).corpus, guessesAndScores, 1))
          < Len(origin.corpus)
    /\ Len(corpus)
          < Len(replayed(construct(origin.corpus, Null).corpus, guessesAndScores, 1))

\* C12: after an accepted score(guess, feedback) the corpus holds exactly the
\* words of the previous corpus that fit the guess and the feedback: no letter
\* scored 'e' that occurs once in the guess; the letter of the guess where it
\* is scored 'x'; another letter where it is scored 'i' or 'e'; the letter
\* somewhere where it is scored 'i'. (A letter that is repeated in the guess
\* and scored 'e' is so excluded at its position only.)
C12_ScoreKeepsTheFittingWords ==
    [][(lastCall'.op = "score" /\ ~result'.threw)
          => LET g == lastCall'.guess
                 f == toLowerCase(lastCall'.score)
                 Test(w) == Fits(w, g, f)
                 kept == SelectSeq(corpus, Test)
             IN  /\ Len(corpus') = Len(kept)
                 /\ \A k \in DOMAIN corpus :
                       Occurrences(corpus', corpus[k]) = Occurrences(kept, corpus[k])
                 /\ \A k \in DOMAIN corpus' : includes(kept, corpus'[k])]_vars

\* A score was accepted whose guess has a repeated letter scored 'e' and
\* another letter scored 'x'; of the words left, one has the repeated letter
\* (elsewhere) and all have the letter scored 'x' at its position.
C12_Witness ==
    /\ lastCall.op = "score"
    /\ ~result.threw
    /\ corpus # <<>>
    /\ \E i \in DOMAIN lastCall.guess :
          /\ lastCall.score[i] = "e"
          /\ lastCall.guess[i] \in Repeated(lastCall.guess)
          /\ \E k \in DOMAIN corpus : includes(corpus[k], lastCall.guess[i])
    /\ \E i \in DOMAIN lastCall.guess :
          /\ lastCall.score[i] = "x"
          /\ \A k \in DOMAIN corpus : corpus[k][i] = lastCall.guess[i]

\* The sum, over the letters of a word, of their letterFrequency() value in
\* the corpus c.
FrequencySum(c, w) ==
    LET letterFreq == letterFrequency(c, NoIndex)
    IN  sumOver(letterFreq, w, 1)

\* A word ranks at least as high as another in the corpus c: it has more
\* distinct letters, or as many and a frequency sum at least as high.
RanksAtLeast(c, a, b) ==
    \/ uniqs(a) > uniqs(b)
    \/ (uniqs(a) = uniqs(b) /\ FrequencySum(c, a) >= FrequencySum(c, b))

\* C13: after a ranking (getSolutions, which is sort and a return, or
\* getBestGuess on a non-empty history) every word of the corpus that is
\* before another has at least as many distinct letters, and with as many a
\* frequency sum at least as high; the best guess returned is a word of the
\* corpus with the most distinct letters and, among those, the highest sum.
C13_RankedByUniquenessThenFrequency ==
    /\ (lastCall.op = "getSolutions"
          \/ (lastCall.op = "getBestGuess" /\ guessesAndScores # <<>>))
          => \A i, j \in DOMAIN corpus :
                i < j => RanksAtLeast(corpus, corpus[i], corpus[j])
    /\ lastCall.op = "getSolutions" => result.value = corpus
    /\ (lastCall.op = "getBestGuess" /\ guessesAndScores # <<>> /\ corpus # <<>>)
          => /\ includes(corpus, result.value)
             /\ \A k \in DOMAIN corpus : RanksAtLeast(corpus, result.value, corpus[k])

\* getSolutions returned a corpus that is not in the order it was given to
\* the solver, with words that differ in their number of distinct letters and
\* words that have as many but differ in their sum.
C13_Witness ==
    /\ lastCall.op = "getSolutions"
    /\ Len(corpus) >= 3
    /\ corpus \notin CorpusInputs
    /\ \E i, j \in DOMAIN corpus : uniqs(corpus[i]) > uniqs(corpus[j])
    /\ \E i, j \in DOMAIN corpus :
          /\ uniqs(corpus[i]) = uniqs(corpus[j])
          /\ FrequencySum(corpus, corpus[i]) > FrequencySum(corpus, corpus[j])

====
